---- MODULE Spec2Model ----
(***************************************************************************)
(* A model of the raw-window-handle core (src/src/lib.rs): the tagged      *)
(* union RawWindowHandle over the per-platform payload structs, the        *)
(* HasRawWindowHandle trait, and the TrustedWindowHandle wrapper.          *)
(*                                                                         *)
(* Four specifications share the module:                                   *)
(*   SpecUnion  payload construction, wrapping, matching, equality and     *)
(*              consumer dispatch of one RawWindowHandle value;            *)
(*   SpecTrust  one TrustedWindowHandle built over every handle value;     *)
(*   Spec       several wrappers beside a producer whose handle changes;   *)
(*   SpecConc   several threads copying and reading shared values.         *)
(***************************************************************************)
EXTENDS Integers, Sequences, FiniteSets, TLC

\* Payload fields range over 0..MaxVal.
MaxVal == 1
\* At most MaxWrappers wrappers are created in Spec.
MaxWrappers == 2
\* SpecConc runs NThreads threads.
NThreads == 2

\* The reserved not-a-handle value of a payload field (null / 0).
Sentinel == 0

Val == 0..MaxVal

(***************************************************************************)
(* The union and its payloads                                              *)
(***************************************************************************)

\* The mutant of Variants: the enum has gained a variant.
VariantsGrown ==
    {"UIKit", "AppKit", "Orbital", "Xlib", "Xcb", "Wayland", "Win32", "WinRT",
     "Web", "AndroidNDK", "Haiku"}

\* The enum's variants.
Variants ==
    {"UIKit", "AppKit", "Orbital", "Xlib", "Xcb", "Wayland", "Win32", "WinRT",
     "Web", "AndroidNDK"}

\* The tag of a variant that a later revision adds (#[non_exhaustive]).
UnknownTag == "Unknown"

\* The fields of each payload struct, in declaration order.
Fields(t) ==
    CASE t = "UIKit" -> <<"ui_window", "ui_view", "ui_view_controller">>
      [] t = "AppKit" -> <<"ns_window", "ns_view">>
      [] t = "Orbital" -> <<"window">>
      [] t = "Xlib" -> <<"window", "display">>
      [] t = "Xcb" -> <<"window", "connection">>
      [] t = "Wayland" -> <<"surface", "display">>
      [] t = "Win32" -> <<"hwnd", "hinstance">>
      [] t = "WinRT" -> <<"core_window">>
      [] t = "Web" -> <<"id">>
      [] t = "AndroidNDK" -> <<"a_native_window">>
      [] OTHER -> <<"handle">>

FieldSet(t) == {Fields(t)[i] : i \in 1..Len(Fields(t))}

\* The numeric content of a payload, field by field, without the names.
FieldVals(t, p) == [i \in 1..Len(Fields(t)) |-> p[Fields(t)[i]]]

\* The mutant of empty: the first field is left at a non-sentinel value.
emptyDirty(t) ==
    [f \in FieldSet(t) |-> IF f = Fields(t)[1] THEN Sentinel + 1 ELSE Sentinel]

\* XxxHandle::empty(): every field at its sentinel.
empty(t) == [f \in FieldSet(t) |-> Sentinel]

\* Struct update syntax: XxxHandle { f: v, ..p }.
Override(p, f, v) == [p EXCEPT ![f] = v]

Payloads(t) == [FieldSet(t) -> Val]

\* The mutant of Wrap: the variant is built over a fresh empty payload.
WrapEmptied(t, p) == [tag |-> t, payload |-> empty(t)]

\* RawWindowHandle::Xxx(p).
Wrap(t, p) == [tag |-> t, payload |-> p]

\* Every RawWindowHandle value over the bounded field values.
Handles == UNION {{Wrap(t, p) : p \in Payloads(t)} : t \in Variants}

\* if let RawWindowHandle::Arm(p) = h { Some(p) } else { None }
Match(h, arm) == IF h.tag = arm THEN {h.payload} ELSE {}

\* The mutant of HandleEq: the payloads' numbers are compared, the tag is not.
HandleEqUntagged(a, b) == FieldVals(a.tag, a.payload) = FieldVals(b.tag, b.payload)

\* #[derive(PartialEq, Eq)]: same variant and equal payload.
HandleEq(a, b) == a.tag = b.tag /\ a.payload = b.payload

\* The arm a consumer takes for a tag it does not know.
Fallback == "Unsupported"

\* A consumer's match with one arm per variant known to it and a `_` arm.
Dispatch(h) ==
    CASE h.tag = "UIKit" -> "UIKit"
      [] h.tag = "AppKit" -> "AppKit"
      [] h.tag = "Orbital" -> "Orbital"
      [] h.tag = "Xlib" -> "Xlib"
      [] h.tag = "Xcb" -> "Xcb"
      [] h.tag = "Wayland" -> "Wayland"
      [] h.tag = "Win32" -> "Win32"
      [] h.tag = "WinRT" -> "WinRT"
      [] h.tag = "Web" -> "Web"
      [] h.tag = "AndroidNDK" -> "AndroidNDK"
      [] OTHER -> Fallback

VARIABLES
    kind,       \* the payload type under construction (its variant's name)
    payload,    \* the payload value
    supplied,   \* ghost: the overridden fields and the values supplied
    handle,     \* the RawWindowHandle built from the payload, if any
    result,     \* the outcome of the last match, dispatch or comparison
    producer,   \* a HasRawWindowHandle implementor and its current handle
    wrappers,   \* the TrustedWindowHandle values created so far
    origin,     \* ghost: how each wrapper was created and from which handle
    ret,        \* the last value returned by a wrapper's raw_window_handle
    calls,      \* invocations of the producer's raw_window_handle
    step,       \* ghost: the operation that ran last
    original,   \* ghost: the handle the shared values were built from
    shared,     \* a RawWindowHandle shared by the threads
    sharedW,    \* a TrustedWindowHandle shared by the threads
    pc,         \* each thread's position
    local       \* each thread's own copy or read result

unionVars == <<kind, payload, supplied, handle, result>>
trustVars == <<producer, wrappers, origin, ret, calls, step>>
concVars == <<original, shared, sharedW, pc, local>>
vars == <<unionVars, trustVars, concVars>>

NoFields == [f \in {} |-> Sentinel]

UnionIdle ==
    /\ kind = "" /\ payload = NoFields /\ supplied = NoFields
    /\ handle = {} /\ result = [op |-> "none"]

TrustIdle ==
    /\ producer = [handle |-> Wrap("Web", empty("Web"))]
    /\ wrappers = <<>> /\ origin = <<>> /\ ret = {} /\ calls = 0 /\ step = "init"

ConcIdle ==
    /\ original = {} /\ shared = {} /\ sharedW = {}
    /\ pc = <<>> /\ local = <<>>

(***************************************************************************)
(* SpecUnion                                                               *)
(***************************************************************************)

\* let p = XxxHandle::empty();
InitUnion ==
    /\ kind \in Variants
    /\ payload = empty(kind)
    /\ supplied = NoFields
    /\ handle = {}
    /\ result = [op |-> "none"]
    /\ TrustIdle /\ ConcIdle

\* XxxHandle { f: v, ..XxxHandle::empty() }, one overridden field at a time.
SetField(f, v) ==
    /\ handle = {}
    /\ f \in FieldSet(kind) \ DOMAIN supplied
    /\ payload' = Override(payload, f, v)
    /\ supplied' = [g \in DOMAIN supplied \cup {f} |-> IF g = f THEN v ELSE supplied[g]]
    /\ UNCHANGED <<kind, handle, result, trustVars, concVars>>

\* let h = RawWindowHandle::Xxx(p);
WrapPayload ==
    /\ handle = {}
    /\ handle' = {Wrap(kind, payload)}
    /\ UNCHANGED <<kind, payload, supplied, result, trustVars, concVars>>

\* A value of a variant this revision does not define reaches the consumer.
WrapUnknown(v) ==
    /\ handle = {}
    /\ supplied = NoFields
    /\ kind' = UnknownTag
    /\ payload' = Override(empty(UnknownTag), "handle", v)
    /\ supplied' = [g \in {"handle"} |-> v]
    /\ handle' = {Wrap(UnknownTag, payload')}
    /\ UNCHANGED <<result, trustVars, concVars>>

\* The consumer matches the handle on one variant's arm.
MatchArm(arm) ==
    /\ \E h \in handle :
          result' = [op |-> "match", arm |-> arm, out |-> Match(h, arm)]
    /\ UNCHANGED <<kind, payload, supplied, handle, trustVars, concVars>>

\* The consumer dispatches on the handle's tag.
DispatchHandle ==
    /\ \E h \in handle : result' = [op |-> "dispatch", out |-> Dispatch(h)]
    /\ UNCHANGED <<kind, payload, supplied, handle, trustVars, concVars>>

\* h == o
CompareWith(o) ==
    /\ \E h \in handle :
          result' = [op |-> "eq", other |-> o, out |-> HandleEq(h, o)]
    /\ UNCHANGED <<kind, payload, supplied, handle, trustVars, concVars>>

NextUnion ==
    \/ \E f \in FieldSet(kind), v \in Val : SetField(f, v)
    \/ WrapPayload
    \/ \E v \in Val : WrapUnknown(v)
    \/ \E arm \in Variants : MatchArm(arm)
    \/ DispatchHandle
    \/ \E o \in Handles : CompareWith(o)

SpecUnion == InitUnion /\ [][NextUnion]_vars

(***************************************************************************)
(* Properties of SpecUnion                                                 *)
(***************************************************************************)

\* C5: wrapping a payload p with its variant's tag and matching the union on
\* that tag recovers a payload equal to p, and the union holds nothing but
\* the tag and the one payload.
UnionRoundTrip ==
    \A h \in handle :
        /\ DOMAIN h = {"tag", "payload"}
        /\ h.tag = kind
        /\ (result.op = "match" /\ result.arm = h.tag) => result.out = {payload}

\* C5's case: a payload with a non-sentinel field was wrapped and matched
\* back out on its own arm.
UnionRoundTripWitness ==
    /\ result.op = "match"
    /\ result.arm = kind
    /\ result.out = {payload}
    /\ \E f \in DOMAIN payload : payload[f] # Sentinel

\* C6: handles of two different variants are never equal, whatever numbers
\* their payloads hold, and matching on another variant's arm selects nothing.
TagIsIdentity ==
    \A h \in handle :
        /\ (result.op = "eq" /\ result.other.tag # h.tag) => result.out = FALSE
        /\ (result.op = "match" /\ result.arm # h.tag) => result.out = {}

\* C6's case: a Web handle was compared with a handle of another variant
\* holding the same non-sentinel numbers.
TagIsIdentityWitness ==
    \E h \in handle :
        /\ result.op = "eq"
        /\ h.tag = "Web"
        /\ result.other.tag # h.tag
        /\ FieldVals(h.tag, h.payload) = FieldVals(result.other.tag, result.other.payload)
        /\ h.payload.id # Sentinel
        /\ result.out = FALSE

\* C7: the dispatch sends every value of a defined variant to the branch of
\* its own tag and every other value to the fallback arm.
DispatchClassifies ==
    \A h \in handle :
        result.op = "dispatch" =>
            IF h.tag \in Variants
            THEN result.out = h.tag /\ result.out # Fallback
            ELSE result.out = Fallback

\* C7's case: a value with a tag outside the defined set was dispatched.
DispatchClassifiesWitness ==
    \E h \in handle :
        /\ h.tag \notin Variants
        /\ result.op = "dispatch"
        /\ result.out = Fallback

\* Whether payload q of the type under construction has exactly the supplied
\* values in the overridden fields and the sentinel in every other field.
AsSupplied(q) ==
    /\ DOMAIN q = FieldSet(kind)
    /\ \A f \in FieldSet(kind) :
          q[f] = IF f \in DOMAIN supplied THEN supplied[f] ELSE Sentinel

\* C8: a payload built from empty() with overrides holds the supplied value
\* in each overridden field and the sentinel in every other field, also
\* after it was wrapped in the union and matched back out.
EmptyPlusOverride ==
    /\ AsSupplied(payload)
    /\ \A h \in handle : AsSupplied(h.payload)
    /\ (result.op = "match" /\ result.arm = kind) =>
          \A q \in result.out : AsSupplied(q)

\* C8's case: an Xlib payload with only the display set, wrapped and matched
\* back out with the window still at the sentinel.
EmptyPlusOverrideWitness ==
    /\ kind = "Xlib"
    /\ DOMAIN supplied = {"display"}
    /\ supplied["display"] # Sentinel
    /\ result.op = "match"
    /\ result.arm = "Xlib"
    /\ \E q \in result.out : q.window = Sentinel /\ q.display = supplied["display"]

(***************************************************************************)
(* The trusted wrapper                                                     *)
(***************************************************************************)

\* The handles the producer of Spec reports and its callers pass to new: the
\* variants of the spec's scenarios, all-sentinel and non-sentinel.
SampleHandles ==
    {Wrap(t, [f \in FieldSet(t) |-> v]) :
        t \in {"Xlib", "Win32", "Web"}, v \in {Sentinel, Sentinel + 1}}

\* The value a rejecting constructor would yield.
Rejected == [err |-> "null handle"]

AllSentinel(h) == \A f \in DOMAIN h.payload : h.payload[f] = Sentinel

\* The mutant of new for C1: the wrapper is built over an empty payload.
newDefaulted(raw) == [raw |-> Wrap(raw.tag, empty(raw.tag))]

\* TrustedWindowHandle::new(raw)
new(raw) == [raw |-> raw]

\* The mutant of raw_window_handle: the producer is asked again.
raw_window_handle_live(self) == producer.handle

\* <TrustedWindowHandle as HasRawWindowHandle>::raw_window_handle(&self)
raw_window_handle(self) == self.raw

\* fr.raw_window_handle() for fr: &H, H: HasRawWindowHandle: the wrapper's own
\* implementation, or the producer's, which reports its current handle.
TraitHandle(fr) ==
    IF "raw" \in DOMAIN fr THEN raw_window_handle(fr) ELSE fr.handle

\* The mutant of from_has_raw_window_handle: handles with no live field are
\* refused.
from_has_raw_window_handle_checked(fr) ==
    IF AllSentinel(TraitHandle(fr)) THEN Rejected ELSE [raw |-> TraitHandle(fr)]

\* The mutant of from_has_raw_window_handle for C2: the variant is kept and
\* the payload is not.
from_has_raw_window_handle_fresh(fr) ==
    [raw |-> Wrap(TraitHandle(fr).tag, empty(TraitHandle(fr).tag))]

\* TrustedWindowHandle::from_has_raw_window_handle(fr)
from_has_raw_window_handle(fr) == [raw |-> TraitHandle(fr)]

TrustedWindowHandles == [raw : Handles]

\* unsafe { TrustedWindowHandle::new(h) }
CallNew(h, limit) ==
    /\ Len(wrappers) < limit
    /\ wrappers' = Append(wrappers, new(h))
    /\ origin' = Append(origin, [via |-> "new", given |-> h])
    /\ step' = "new"
    /\ UNCHANGED <<producer, ret, calls, unionVars, concVars>>

\* The mutant of CallFrom: the producer is invoked twice, once to look at the
\* handle and once to store it.
CallFromTwice(limit) ==
    /\ Len(wrappers) < limit
    /\ wrappers' = Append(wrappers, from_has_raw_window_handle(producer))
    /\ origin' = Append(origin, [via |-> "from", given |-> producer.handle])
    /\ calls' = calls + 2
    /\ step' = "from"
    /\ UNCHANGED <<producer, ret, unionVars, concVars>>

\* TrustedWindowHandle::from_has_raw_window_handle(&producer): one invocation
\* of the producer's raw_window_handle, whose result is wrapped.
CallFrom(limit) ==
    /\ Len(wrappers) < limit
    /\ wrappers' = Append(wrappers, from_has_raw_window_handle(producer))
    /\ origin' = Append(origin, [via |-> "from", given |-> producer.handle])
    /\ calls' = calls + 1
    /\ step' = "from"
    /\ UNCHANGED <<producer, ret, unionVars, concVars>>

\* wrappers[i].raw_window_handle()
CallRead(i) ==
    /\ i \in 1..Len(wrappers)
    /\ ret' = {[w |-> i, val |-> raw_window_handle(wrappers[i])]}
    /\ step' = "read"
    /\ UNCHANGED <<producer, wrappers, origin, calls, unionVars, concVars>>

\* A platform event after which the producer reports another handle.
PlatformEvent(h) ==
    /\ h # producer.handle
    /\ producer' = [handle |-> h]
    /\ step' = "event"
    /\ UNCHANGED <<wrappers, origin, ret, calls, unionVars, concVars>>

InitTrust ==
    /\ producer \in {[handle |-> h] : h \in Handles}
    /\ wrappers = <<>> /\ origin = <<>> /\ ret = {} /\ calls = 0 /\ step = "init"
    /\ UnionIdle /\ ConcIdle

NextTrust ==
    \/ \E h \in Handles : CallNew(h, 1)
    \/ CallFrom(1)
    \/ \E i \in 1..Len(wrappers) : CallRead(i)

\* One wrapper, over every handle value, beside a producer with a fixed handle.
SpecTrust == InitTrust /\ [][NextTrust]_vars

Init ==
    /\ producer \in {[handle |-> h] : h \in SampleHandles}
    /\ wrappers = <<>> /\ origin = <<>> /\ ret = {} /\ calls = 0 /\ step = "init"
    /\ UnionIdle /\ ConcIdle

Next ==
    \/ \E h \in SampleHandles : CallNew(h, MaxWrappers)
    \/ CallFrom(MaxWrappers)
    \/ \E i \in 1..Len(wrappers) : CallRead(i)
    \/ \E h \in SampleHandles : PlatformEvent(h)

\* Several wrappers beside a producer whose handle changes.
Spec == Init /\ [][Next]_vars

(***************************************************************************)
(* Properties of SpecTrust and Spec                                        *)
(***************************************************************************)

\* C1: raw_window_handle on a wrapper made by new(h) returns a handle equal
\* to h, tag and payload fields alike.
NewRoundTrip ==
    \A r \in ret :
        origin[r.w].via = "new" =>
            /\ r.val = origin[r.w].given
            /\ HandleEq(r.val, origin[r.w].given)

\* C1's case: a handle with a non-sentinel field went through new and was
\* read back.
NewRoundTripWitness ==
    \E r \in ret :
        /\ origin[r.w].via = "new"
        /\ ~AllSentinel(origin[r.w].given)
        /\ r.val = origin[r.w].given

\* C2: a wrapper extracted from a producer that returns the fixed handle V
\* returns V.
ExtractionReturnsV ==
    \A r \in ret : origin[r.w].via = "from" => r.val = producer.handle

\* C2's case: a wrapper was extracted from a producer with a non-sentinel
\* handle and read back.
ExtractionReturnsVWitness ==
    \E r \in ret :
        /\ origin[r.w].via = "from"
        /\ ~AllSentinel(producer.handle)
        /\ r.val = producer.handle

\* C3: whatever has happened since a wrapper was created, a call of
\* raw_window_handle on it returns the handle it was created with, and so did
\* the last call made.
WrapperImmutable ==
    /\ \A i \in 1..Len(wrappers) : raw_window_handle(wrappers[i]) = origin[i].given
    /\ \A r \in ret : r.val = origin[r.w].given

\* C3's case: the first wrapper was extracted from the producer, another
\* wrapper was created, the producer's handle changed, and the first wrapper
\* was then read.
WrapperImmutableWitness ==
    /\ Len(wrappers) >= 2
    /\ step = "read"
    /\ \E r \in ret :
          /\ r.w = 1
          /\ origin[1].via = "from"
          /\ producer.handle # origin[1].given
          /\ r.val = origin[1].given

\* C4: an extraction invokes the producer exactly once, and a call of
\* raw_window_handle on a wrapper does not invoke it.
ProducerCalledOnce ==
    [][/\ step' = "from" => calls' = calls + 1
       /\ step' = "read" => calls' = calls]_vars

\* C4's case: after one extraction the wrapper was read, with the producer
\* invoked once in all.
ProducerCalledOnceWitness ==
    /\ step = "read"
    /\ calls = 1
    /\ \E r \in ret : origin[r.w].via = "from"

\* C9: no constructor rejects or alters a handle and no read fails: every
\* wrapper is a TrustedWindowHandle holding the handle it was given, every
\* value read is a RawWindowHandle, and new and the extraction are possible
\* for every handle value.
NoValidation ==
    /\ \A i \in 1..Len(wrappers) :
          wrappers[i] \in TrustedWindowHandles /\ wrappers[i] = [raw |-> origin[i].given]
    /\ \A r \in ret : r.val \in Handles
    /\ Len(wrappers) = 0 =>
          /\ \A h \in Handles : ENABLED CallNew(h, 1)
          /\ ENABLED CallFrom(1)

\* C9's case: a wrapper over an all-sentinel handle was extracted from the
\* producer and read back.
NoValidationWitness ==
    \E r \in ret :
        /\ origin[r.w].via = "from"
        /\ AllSentinel(origin[r.w].given)
        /\ r.val = origin[r.w].given

(***************************************************************************)
(* SpecConc: threads sharing a handle and a wrapper by reference           *)
(***************************************************************************)

Threads == 1..NThreads

\* The traits each type derives: the #[derive(...)] list above its definition.
\* The payload structs are Copy as well, since the enum that holds them is.
Derives(ty) ==
    CASE ty = "RawWindowHandle" -> {"Debug", "Clone", "Copy", "PartialEq", "Eq", "Hash"}
      [] ty = "TrustedWindowHandle" -> {}

\* Thread t starts `let c = *shared;` (derive(Copy)): the tag is read first.
CopyHandleTag(t) ==
    /\ "Copy" \in Derives("RawWindowHandle")
    /\ pc[t] = "idle"
    /\ pc' = [pc EXCEPT ![t] = "copying"]
    /\ local' = [local EXCEPT ![t] = {[op |-> "copy", tag |-> shared.tag]}]
    /\ UNCHANGED <<original, shared, sharedW, unionVars, trustVars>>

\* Thread t ends the copy: the payload is read and the copy is complete.
CopyHandlePayload(t) ==
    /\ pc[t] = "copying"
    /\ pc' = [pc EXCEPT ![t] = "done"]
    /\ \E l \in local[t] :
          local' = [local EXCEPT ![t] = {[op |-> "copy", val |-> Wrap(l.tag, shared.payload)]}]
    /\ UNCHANGED <<original, shared, sharedW, unionVars, trustVars>>

\* Thread t copies the payload out of the shared handle by matching it.
CopyPayload(t) ==
    /\ "Copy" \in Derives("RawWindowHandle")
    /\ pc[t] = "idle"
    /\ pc' = [pc EXCEPT ![t] = "done"]
    /\ \E q \in Match(shared, shared.tag) :
          local' = [local EXCEPT ![t] = {[op |-> "payload", val |-> q]}]
    /\ UNCHANGED <<original, shared, sharedW, unionVars, trustVars>>

\* The mutant of ReadWrapper: the read takes the handle out of the wrapper
\* and leaves an empty payload behind.
ReadWrapperTake(t) ==
    /\ pc[t] = "idle"
    /\ pc' = [pc EXCEPT ![t] = "done"]
    /\ local' = [local EXCEPT ![t] = {[op |-> "read", val |-> raw_window_handle(sharedW)]}]
    /\ sharedW' = new(Wrap(sharedW.raw.tag, empty(sharedW.raw.tag)))
    /\ UNCHANGED <<original, shared, unionVars, trustVars>>

\* Thread t calls sharedW.raw_window_handle() through &self.
ReadWrapper(t) ==
    /\ pc[t] = "idle"
    /\ pc' = [pc EXCEPT ![t] = "done"]
    /\ local' = [local EXCEPT ![t] = {[op |-> "read", val |-> raw_window_handle(sharedW)]}]
    /\ UNCHANGED <<original, shared, sharedW, unionVars, trustVars>>

\* Thread t copies the wrapper itself, `sharedW.clone()` or `*sharedW`: possible
\* only for a type that derives Clone or Copy, so never a step of NextConc.
CloneWrapper(t) ==
    /\ Derives("TrustedWindowHandle") \cap {"Clone", "Copy"} # {}
    /\ pc[t] = "idle"
    /\ pc' = [pc EXCEPT ![t] = "done"]
    /\ local' = [local EXCEPT ![t] = {[op |-> "clone", val |-> sharedW.raw]}]
    /\ UNCHANGED <<original, shared, sharedW, unionVars, trustVars>>

\* Thread t duplicates the wrapper the one way the type allows,
\* TrustedWindowHandle::from_has_raw_window_handle(&sharedW), and reads the
\* duplicate.
ExtractFromWrapper(t) ==
    /\ pc[t] = "idle"
    /\ pc' = [pc EXCEPT ![t] = "done"]
    /\ local' = [local EXCEPT ![t] =
          {[op |-> "wcopy",
            val |-> raw_window_handle(from_has_raw_window_handle(sharedW))]}]
    /\ UNCHANGED <<original, shared, sharedW, unionVars, trustVars>>

\* Thread t drops what it holds and starts over.
Finish(t) ==
    /\ pc[t] = "done"
    /\ pc' = [pc EXCEPT ![t] = "idle"]
    /\ local' = [local EXCEPT ![t] = {}]
    /\ UNCHANGED <<original, shared, sharedW, unionVars, trustVars>>

InitConc ==
    /\ original \in Handles
    /\ shared = original
    /\ sharedW = new(original)
    /\ pc = [t \in Threads |-> "idle"]
    /\ local = [t \in Threads |-> {}]
    /\ UnionIdle /\ TrustIdle

NextConc ==
    \E t \in Threads :
        \/ CopyHandleTag(t)
        \/ CopyHandlePayload(t)
        \/ CopyPayload(t)
        \/ ReadWrapper(t)
        \/ ExtractFromWrapper(t)
        \/ Finish(t)

SpecConc == InitConc /\ [][NextConc]_vars

\* Every value stays as built, and every finished copy or read of a thread
\* holds the value the shared values were built from.
ValuesAgree ==
    /\ shared = original
    /\ sharedW = [raw |-> original]
    /\ \A t \in Threads : \A l \in local[t] :
          pc[t] = "done" =>
              l.val = IF l.op = "payload" THEN original.payload ELSE original

\* C10 as stated: each thread may at any time copy the shared handle, its
\* payload and the shared wrapper and read them, and every copy and read
\* observes the original value.
FreelyCopiedAndRead ==
    /\ ValuesAgree
    /\ \A t \in Threads :
          pc[t] = "idle" =>
              /\ ENABLED CopyHandleTag(t)
              /\ ENABLED CopyPayload(t)
              /\ ENABLED ReadWrapper(t)
              /\ ENABLED CloneWrapper(t)

\* C10 as amended: each thread may at any time copy the shared handle and its
\* payload, read the shared wrapper and extract a new wrapper from it; under
\* every interleaving the shared values keep the value they were built from
\* and every finished copy or read holds that value.
ConcurrentReadsAgree ==
    /\ ValuesAgree
    /\ \A t \in Threads :
          pc[t] = "idle" =>
              /\ ENABLED CopyHandleTag(t)
              /\ ENABLED CopyPayload(t)
              /\ ENABLED ReadWrapper(t)
              /\ ENABLED ExtractFromWrapper(t)

\* C10's case: while one thread holds a finished copy of the handle, another
\* holds the handle read from a wrapper it extracted from the shared one, of a
\* value with a non-sentinel field.
ConcurrentReadsAgreeWitness ==
    /\ ~AllSentinel(original)
    /\ \E t, u \in Threads :
          /\ t # u
          /\ pc[t] = "done" /\ pc[u] = "done"
          /\ \E l \in local[t] : l.op = "wcopy" /\ l.val = original
          /\ \E l \in local[u] : l.op = "copy" /\ l.val = original

====
